---- MODULE Spec2Model ----
(***************************************************************************)
(* CricketIQ: the chat endpoint ChatView.post (question -> oracle ->       *)
(* store -> answer + chart) as given in the MongoDB integration guide.     *)
(* Text is modelled as a sequence of one-character strings, so that        *)
(* str.replace, str() and the "," format are computed, not assumed.        *)
(***************************************************************************)
EXTENDS Integers, Sequences, FiniteSets, TLC

(* ---------------------------------------------------------------- bounds *)
\* longest document sequence the store returns in the model
MaxDocs == 3
\* longest answer template, counted in template parts
MaxParts == 2

\* longest inbound conversation history
MaxHistory == 11

\* most requests one chat session sends
MaxAsks == 2

(* ------------------------------------------------------------------ text *)
ResultToken == <<"{", "r", "e", "s", "u", "l", "t", "}">>
NoDataFound == <<"N", "o", " ", "d", "a", "t", "a", " ", "f", "o", "u", "n", "d">>
GenErrPrefix == <<"E", "r", "r", "o", "r", " ", "g", "e", "n", "e", "r", "a", "t", "i", "n", "g", " ", "q", "u", "e", "r", "y", ":", " ">>
ExecErrPrefix == <<"E", "r", "r", "o", "r", " ", "e", "x", "e", "c", "u", "t", "i", "n", "g", " ", "q", "u", "e", "r", "y", ":", " ">>
UnexpectedMsg == <<"A", "n", " ", "u", "n", "e", "x", "p", "e", "c", "t", "e", "d", " ", "e", "r", "r", "o", "r", " ", "o", "c", "c", "u", "r", "r", "e", "d", " ", "p", "r", "o", "c", "e", "s", "s", "i", "n", "g", " ", "y", "o", "u", "r", " ", "r", "e", "q", "u", "e", "s", "t", ".">>
DefaultTemplate == ResultToken
DefaultTitle == "Analysis"
IdKey == <<"_", "i", "d">>
RunsKey == <<"r", "u", "n", "s">>
TeamKey == <<"t", "e", "a", "m">>
WktsKey == <<"w", "k", "t", "s">>
ResultKey == <<"r", "e", "s", "u", "l", "t">>

\* values of a document field: string | integer | null
StrV(s) == [t |-> "str", s |-> s, n |-> 0]
IntV(n) == [t |-> "int", s |-> <<>>, n |-> n]
NullV == [t |-> "null", s |-> <<>>, n |-> 0]

DigitChar(d) == <<"0", "1", "2", "3", "4", "5", "6", "7", "8", "9">>[d + 1]

RECURSIVE Digits(_)
\* decimal digits of a natural number
Digits(n) == IF n < 10 THEN <<DigitChar(n)>> ELSE Digits(n \div 10) \o <<DigitChar(n % 10)>>

Pad3(n) == <<DigitChar(n \div 100), DigitChar((n \div 10) % 10), DigitChar(n % 10)>>

RECURSIVE CommaNat(_)
CommaNat(n) == IF n < 1000 THEN Digits(n) ELSE CommaNat(n \div 1000) \o <<",">> \o Pad3(n % 1000)

\* f"{v:,}" for an integer v
FormatComma(n) == IF n < 0 THEN <<"-">> \o CommaNat(0 - n) ELSE CommaNat(n)

\* str(v)
PyStr(v) ==
  CASE v.t = "str" -> v.s
    [] v.t = "int" -> (IF v.n < 0 THEN <<"-">> \o Digits(0 - v.n) ELSE Digits(v.n))
    [] OTHER -> <<"N", "o", "n", "e">>

RECURSIVE Replace(_, _, _)
\* s.replace(old, new): every non-overlapping occurrence, left to right
Replace(s, old, new) ==
  IF Len(s) < Len(old) THEN s
  ELSE IF SubSeq(s, 1, Len(old)) = old
       THEN new \o Replace(SubSeq(s, Len(old) + 1, Len(s)), old, new)
       ELSE <<s[1]>> \o Replace(Tail(s), old, new)

RECURSIVE JoinComma(_)
\* ", ".join(items)
JoinComma(items) ==
  IF Len(items) = 0 THEN <<>>
  ELSE IF Len(items) = 1 THEN items[1]
  ELSE items[1] \o <<",", " ">> \o JoinComma(Tail(items))

(* ------------------------------------------------------------- documents *)
Fld(k, v) == [k |-> k, v |-> v]

HasKey(doc, key) == \E i \in 1..Len(doc) : doc[i].k = key
Get(doc, key) == doc[CHOOSE i \in 1..Len(doc) : doc[i].k = key].v

\* isinstance(v, (int, float)); the numbers of the model are integers
IsNumeric(v) == v.t = "int"

FirstNumericIdxMut(doc) ==
  LET idx == {i \in 1..Len(doc) : doc[i].k # IdKey /\ IsNumeric(doc[i].v)}
  IN IF idx = {} THEN 0 ELSE CHOOSE i \in idx : \A j \in idx : i >= j

\* index of the first non-_id numeric field of doc, 0 when there is none
FirstNumericIdx(doc) ==
  LET idx == {i \in 1..Len(doc) : doc[i].k # IdKey /\ IsNumeric(doc[i].v)}
  IN IF idx = {} THEN 0 ELSE CHOOSE i \in idx : \A j \in idx : i <= j

(* ------------------------------------------------------ answer synthesis *)
\* "{{" + key + "}}"
Placeholder(key) == <<"{", "{">> \o key \o <<"}", "}">>

RECURSIVE ReplaceFields(_, _)
\* for key, value in result_data.items(): replace "{{key}}" by str(value)
ReplaceFields(ans, doc) ==
  IF Len(doc) = 0 THEN ans
  ELSE ReplaceFields(Replace(ans, Placeholder(doc[1].k), PyStr(doc[1].v)), Tail(doc))

\* if numeric_val:  (None and 0 are both falsy)
NumericTruthy(doc) == FirstNumericIdx(doc) # 0 /\ doc[FirstNumericIdx(doc)].v.n # 0

\* result_str of the single-document branches
ResultStr(doc) ==
  IF NumericTruthy(doc)
  THEN PyStr(Get(doc, IdKey)) \o <<" ", "w", "i", "t", "h", " ">> \o FormatComma(doc[FirstNumericIdx(doc)].v.n)
  ELSE PyStr(Get(doc, IdKey))

\* result_type == "dict"
FormatDict(tpl, doc) ==
  IF Len(doc) = 0 THEN tpl
  ELSE IF HasKey(doc, IdKey)
       THEN Replace(ReplaceFields(tpl, doc), ResultToken, ResultStr(doc))
       ELSE ReplaceFields(tpl, doc)

\* result_type == "list" and len(result_data) == 1
FormatListOne(tpl, doc) ==
  IF HasKey(doc, IdKey) THEN Replace(tpl, ResultToken, ResultStr(doc)) ELSE tpl

RECURSIVE FormattedItemsMut(_)
FormattedItemsMut(docs) ==
  IF Len(docs) = 0 THEN <<>>
  ELSE LET doc == docs[1]
       IN (IF HasKey(doc, IdKey) /\ NumericTruthy(doc)
           THEN <<PyStr(Get(doc, IdKey)) \o <<" ", "(">> \o FormatComma(doc[FirstNumericIdx(doc)].v.n) \o <<")">>>>
           ELSE <<>>) \o FormattedItemsMut(Tail(docs))

RECURSIVE FormattedItems(_)
\* the list "formatted": one "<name> (<v:,>)" per document with _id and a numeric field
FormattedItems(docs) ==
  IF Len(docs) = 0 THEN <<>>
  ELSE LET doc == docs[1]
       IN (IF HasKey(doc, IdKey) /\ FirstNumericIdx(doc) # 0
           THEN <<PyStr(Get(doc, IdKey)) \o <<" ", "(">> \o FormatComma(doc[FirstNumericIdx(doc)].v.n) \o <<")">>>>
           ELSE <<>>) \o FormattedItems(Tail(docs))

\* result_type == "list" and len(result_data) != 1
FormatListMany(tpl, docs) == Replace(tpl, ResultToken, JoinComma(FormattedItems(docs)))

\* result_type == "empty"
FormatEmptyMut(tpl) == NoDataFound
FormatEmpty(tpl) == Replace(tpl, ResultToken, NoDataFound)

\* does formatting call final_answer.replace at all (it raises when the template is None)
CallsReplace(type, docs) ==
  CASE type = "dict" -> Len(docs[1]) > 0
    [] type = "list" -> (Len(docs) # 1 \/ HasKey(docs[1], IdKey))
    [] OTHER -> TRUE

\* the "Format answer based on result type" block; tpl is a string here
FormatAnswer(tpl, type, docs) ==
  CASE type = "dict" -> FormatDict(tpl, docs[1])
    [] type = "list" -> (IF Len(docs) = 1 THEN FormatListOne(tpl, docs[1]) ELSE FormatListMany(tpl, docs))
    [] OTHER -> FormatEmpty(tpl)

(* ------------------------------------------------------------ chart data *)
NoChart == [t |-> "null", type |-> "none", title |-> "none", labels |-> <<>>, values |-> <<>>]

RECURSIVE ChartLabels(_)
ChartLabels(docs) ==
  IF Len(docs) = 0 THEN <<>>
  ELSE (IF HasKey(docs[1], IdKey) THEN <<PyStr(Get(docs[1], IdKey))>> ELSE <<>>) \o ChartLabels(Tail(docs))

RECURSIVE ChartValues(_)
ChartValues(docs) ==
  IF Len(docs) = 0 THEN <<>>
  ELSE (IF HasKey(docs[1], IdKey) /\ FirstNumericIdx(docs[1]) # 0
        THEN <<docs[1][FirstNumericIdx(docs[1])].v.n>> ELSE <<>>) \o ChartValues(Tail(docs))

\* chart_suggestion and chart_suggestion.get("type")
SuggestsChart(cs) == cs.t = "dict" /\ cs.type # "none"

BuildChartMut(cs, type, docs) ==
  IF SuggestsChart(cs) /\ type = "list"
  THEN [t |-> "chart", type |-> cs.type,
        title |-> (IF cs.title = "none" THEN DefaultTitle ELSE cs.title),
        labels |-> ChartLabels(docs), values |-> ChartValues(docs)]
  ELSE NoChart

\* the "Chart population" block
BuildChart(cs, type, docs) ==
  IF SuggestsChart(cs) /\ type = "list" /\ Len(docs) >= 3
  THEN [t |-> "chart", type |-> cs.type,
        title |-> (IF cs.title = "none" THEN DefaultTitle ELSE cs.title),
        labels |-> ChartLabels(docs), values |-> ChartValues(docs)]
  ELSE NoChart

(* ---------------------------------------------------------------- inputs *)
RECURSIVE Flatten(_)
Flatten(parts) == IF Len(parts) = 0 THEN <<>> ELSE parts[1] \o Flatten(Tail(parts))

\* the pieces answer templates are made of: the {result} token, a {{field}} token, plain text
TemplateParts == {ResultToken, Placeholder(RunsKey), <<" ", "o", "k">>}
\* the part sequences of the templates, with the one-part template "{{result}}" (line 158) among them
PartSeqs == UNION {[1..n -> TemplateParts] : n \in 0..MaxParts} \cup {<<Placeholder(ResultKey)>>}
TemplateStrings == {Flatten(p) : p \in PartSeqs}

\* the documents the store may return
DocPool ==
  { <<Fld(IdKey, StrV(<<"A">>)), Fld(RunsKey, IntV(100))>>,
    <<Fld(IdKey, StrV(<<"B">>)), Fld(RunsKey, IntV(90))>>,
    <<Fld(IdKey, StrV(<<"Z">>)), Fld(RunsKey, IntV(0))>>,
    <<Fld(IdKey, StrV(<<"D">>)), Fld(TeamKey, StrV(<<"X">>))>>,
    <<Fld(RunsKey, IntV(80))>>,
    <<Fld(IdKey, IntV(2023)), Fld(TeamKey, NullV), Fld(RunsKey, IntV(-1234567)), Fld(WktsKey, IntV(5))>> }
DocSeqs == UNION {[1..n -> DocPool] : n \in 0..MaxDocs}

\* a pipeline: its stage keys in order and the bound of its $limit stage (0: no such stage)
NoPipeline == [t |-> "none", stages |-> <<>>, limit |-> 0]
Pipelines ==
  { NoPipeline,
    [t |-> "list", stages |-> <<"$match", "$group", "$sort", "$limit">>, limit |-> 1],
    [t |-> "list", stages |-> <<"$group", "$out">>, limit |-> 0] }

AbsentTemplate == [t |-> "absent", s |-> <<>>, n |-> 0]
TemplateValues == {AbsentTemplate, NullV} \cup {StrV(t) : t \in TemplateStrings}

AbsentSuggestion == [t |-> "absent", type |-> "none", title |-> "none"]
EmptySuggestion == [t |-> "dict", type |-> "none", title |-> "none"]
ChartSuggestions ==
  { AbsentSuggestion,
    [t |-> "null", type |-> "none", title |-> "none"],
    [t |-> "dict", type |-> "none", title |-> "T"],
    [t |-> "dict", type |-> "bar", title |-> "T"],
    [t |-> "dict", type |-> "scatter", title |-> "none"] }

OracleMessages == {<<"g">>}
StoreMessages == {<<"s">>}

\* what ai_service.get_generated_query may return: {"error": ...} or a descriptor
AiErrors ==
  [hasError : {TRUE}, error : OracleMessages, pipeline : {NoPipeline, [t |-> "list", stages |-> <<"$match", "$limit">>, limit |-> 5000]},
   collection : {"absent"}, answer_template : {AbsentTemplate}, chart_suggestion : {AbsentSuggestion}]
AiDescriptors ==
  [hasError : {FALSE}, error : {<<>>}, pipeline : Pipelines,
   collection : {"absent", "matchwise"}, answer_template : TemplateValues, chart_suggestion : ChartSuggestions]
NoAiResponse ==
  [hasError |-> FALSE, error |-> <<>>, pipeline |-> NoPipeline, collection |-> "absent",
   answer_template |-> AbsentTemplate, chart_suggestion |-> AbsentSuggestion]

NoExecution == [hasError |-> FALSE, error |-> <<>>, type |-> "none", data |-> <<>>]

(* ----------------------------------------------------------------- state *)
VARIABLES
  pc,                \* position of the request inside ChatView.post
  request,           \* the inbound request
  ai_response,       \* what the oracle returned
  execution_result,  \* what engine.execute returned
  executed,          \* the (pipeline, collection) pairs handed to engine.execute
  final_answer,      \* the answer being built
  responses,         \* the responses returned for the request
  messages,          \* useChat: the message list
  loading,           \* useChat: the loading flag
  input,             \* ChatInput: the text of the input box
  rendered,          \* the state as of the last render: props and the closures of ask and handleSubmit
  inflight,          \* the requests sent by sendQuestion and not yet settled
  sent,              \* the number of requests sent
  outcomes,          \* the settled requests with their outcome
  ignored,           \* the last call a guard turned away: "ask", "submit", or "none"
  inbound_history,   \* conversation_history of the inbound request
  forwarded_history, \* the history handed to the oracle
  hstage             \* how far the history has travelled

backendVars == <<pc, request, ai_response, execution_result, executed, final_answer, responses>>
chatVars == <<messages, loading, input, rendered, inflight, sent, outcomes, ignored>>
histVars == <<inbound_history, forwarded_history, hstage>>
vars == <<backendVars, chatVars, histVars>>

Init ==
  /\ pc = "received"
  /\ request \in [valid : BOOLEAN]
  /\ ai_response = NoAiResponse
  /\ execution_result = NoExecution
  /\ executed = <<>>
  /\ final_answer = NullV
  /\ responses = <<>>
  /\ messages = <<>>
  /\ loading = FALSE
  /\ input = <<>>
  /\ rendered = [messages |-> <<>>, loading |-> FALSE, input |-> <<>>]
  /\ inflight = {}
  /\ sent = 0
  /\ outcomes = {}
  /\ ignored = "none"
  /\ inbound_history = <<>>
  /\ forwarded_history = <<>>
  /\ hstage = "idle"

\* the locals read off ai_response with their .get defaults
pipeline == ai_response.pipeline
collection == IF ai_response.collection = "absent" THEN "deliverywise" ELSE ai_response.collection
answer_template ==
  IF ai_response.answer_template.t = "absent" THEN StrV(DefaultTemplate) ELSE ai_response.answer_template
chart_suggestion ==
  IF ai_response.chart_suggestion.t = "absent" THEN EmptySuggestion ELSE ai_response.chart_suggestion

Response(status, shape, answer, chart, query) ==
  [status |-> status, shape |-> shape, answer |-> answer, chart_data |-> chart, query_executed |-> query]

Return(r) == /\ responses' = Append(responses, r)
             /\ pc' = "done"

UnexpectedErrorMut == pc' = "done" /\ UNCHANGED responses

\* the except Exception handler
UnexpectedError == Return(Response(500, "answer", StrV(UnexpectedMsg), NoChart, NoPipeline))

\* "error" in ai_response
OracleFailedMut(ai) == FALSE
OracleFailed(ai) == ai.hasError

\* "error" in execution_result
ExecutionFailedMut(res) == FALSE
ExecutionFailed(res) == res.hasError

\* serializer.is_valid() is false
PostInvalid ==
  /\ pc = "received"
  /\ ~request.valid
  /\ Return(Response(400, "errors", NullV, NoChart, NoPipeline))
  /\ UNCHANGED <<request, ai_response, execution_result, executed, final_answer>>
  /\ UNCHANGED <<chatVars, histVars>>

PostValid ==
  /\ pc = "received"
  /\ request.valid
  /\ pc' = "generate"
  /\ UNCHANGED <<request, ai_response, execution_result, executed, final_answer, responses>>
  /\ UNCHANGED <<chatVars, histVars>>

\* ai_service.get_generated_query raises
OracleRaises ==
  /\ pc = "generate"
  /\ UnexpectedError
  /\ UNCHANGED <<request, ai_response, execution_result, executed, final_answer>>
  /\ UNCHANGED <<chatVars, histVars>>

\* ai_service.get_generated_query returns
GenerateQueryMut ==
  /\ pc = "generate"
  /\ \E ai \in AiErrors \cup AiDescriptors :
       /\ ai_response' = ai
       /\ pc' = "execute"
       /\ IF OracleFailed(ai)
          THEN responses' = Append(responses, Response(500, "answer", StrV(GenErrPrefix \o ai.error), NoChart, NoPipeline))
          ELSE UNCHANGED responses
  /\ UNCHANGED <<request, execution_result, executed, final_answer>>
  /\ UNCHANGED <<chatVars, histVars>>
GenerateQuery ==
  /\ pc = "generate"
  /\ \E ai \in AiErrors \cup AiDescriptors :
       /\ ai_response' = ai
       /\ IF OracleFailed(ai)
          THEN Return(Response(500, "answer", StrV(GenErrPrefix \o ai.error), NoChart, NoPipeline))
          ELSE /\ pc' = "execute"
               /\ UNCHANGED responses
  /\ UNCHANGED <<request, execution_result, executed, final_answer>>
  /\ UNCHANGED <<chatVars, histVars>>

\* get_mongo_engine() raises
EngineUnavailable ==
  /\ pc = "execute"
  /\ UnexpectedError
  /\ UNCHANGED <<request, ai_response, execution_result, executed, final_answer>>
  /\ UNCHANGED <<chatVars, histVars>>

ClassifyMut(docs) ==
  IF Len(docs) <= 1 THEN {"empty"} ELSE {"list"}

\* the shapes engine.execute gives to a document list
Classify(docs) ==
  IF Len(docs) = 0 THEN {"empty"} ELSE IF Len(docs) = 1 THEN {"dict", "list"} ELSE {"list"}

\* engine.execute(pipeline, collection): {"error": str(e)} or {"data": ..., "type": ...}
EngineOutcomes(pl) ==
  [hasError : {TRUE}, error : StoreMessages, type : {"none"}, data : {<<>>}]
  \cup (IF pl.t = "none" THEN {}
        ELSE UNION {[hasError : {FALSE}, error : {<<>>}, type : Classify(docs), data : {docs}] : docs \in DocSeqs})

ExecuteQuery ==
  /\ pc = "execute"
  /\ executed' = Append(executed, [pipeline |-> pipeline, collection |-> collection])
  /\ \E res \in EngineOutcomes(pipeline) :
       /\ execution_result' = res
       /\ IF ExecutionFailed(res)
          THEN /\ Return(Response(500, "answer", StrV(ExecErrPrefix \o res.error), NoChart, NoPipeline))
               /\ UNCHANGED final_answer
          ELSE /\ pc' = "format"
               /\ final_answer' = answer_template
               /\ UNCHANGED responses
  /\ UNCHANGED <<request, ai_response>>
  /\ UNCHANGED <<chatVars, histVars>>

\* final_answer.replace on a template that is None
FormatRaises ==
  /\ pc = "format"
  /\ final_answer.t # "str"
  /\ CallsReplace(execution_result.type, execution_result.data)
  /\ UnexpectedError
  /\ UNCHANGED <<request, ai_response, execution_result, executed, final_answer>>
  /\ UNCHANGED <<chatVars, histVars>>

FormatStep ==
  /\ pc = "format"
  /\ ~(final_answer.t # "str" /\ CallsReplace(execution_result.type, execution_result.data))
  /\ final_answer' =
       (IF final_answer.t = "str"
        THEN StrV(FormatAnswer(final_answer.s, execution_result.type, execution_result.data))
        ELSE final_answer)
  /\ pc' = "chart"
  /\ UNCHANGED <<request, ai_response, execution_result, executed, responses>>
  /\ UNCHANGED <<chatVars, histVars>>

\* chart population, response_data and return Response(response_data)
Respond ==
  /\ pc = "chart"
  /\ Return(Response(200, "full", final_answer,
                     BuildChart(chart_suggestion, execution_result.type, execution_result.data), pipeline))
  /\ UNCHANGED <<request, ai_response, execution_result, executed, final_answer>>
  /\ UNCHANGED <<chatVars, histVars>>

Next ==
  \/ PostInvalid
  \/ PostValid
  \/ OracleRaises
  \/ GenerateQuery
  \/ EngineUnavailable
  \/ ExecuteQuery
  \/ FormatRaises
  \/ FormatStep
  \/ Respond

Spec == Init /\ [][Next]_vars

(* ------------------------------------------------- conversation history *)
\* ConversationMessage: a turn of the caller's history
Turns == {[role |-> "user", content |-> "q"], [role |-> "assistant", content |-> "a"]}

Histories == UNION {[1..n -> Turns] : n \in 0..MaxHistory}

\* conversation_history = serializer.validated_data.get('conversation_history', [])
ReceiveHistory ==
  /\ hstage = "idle"
  /\ \E h \in Histories : inbound_history' = h
  /\ hstage' = "received"
  /\ UNCHANGED forwarded_history
  /\ UNCHANGED <<backendVars, chatVars>>

\* ai_service.get_generated_query(question, conversation_history)
ForwardHistory ==
  /\ hstage = "received"
  /\ forwarded_history' = inbound_history
  /\ hstage' = "forwarded"
  /\ UNCHANGED inbound_history
  /\ UNCHANGED <<backendVars, chatVars>>

NextHistory ==
  \/ ReceiveHistory
  \/ ForwardHistory

SpecHistory == Init /\ [][NextHistory]_vars

(* ------------------------------------------------------------ chat client *)
\* question?.trim()
RECURSIVE TrimStart(_)
TrimStart(s) == IF s # <<>> /\ Head(s) = " " THEN TrimStart(Tail(s)) ELSE s

RECURSIVE TrimEnd(_)
TrimEnd(s) == IF s # <<>> /\ s[Len(s)] = " " THEN TrimEnd(SubSeq(s, 1, Len(s) - 1)) ELSE s

Trim(s) == TrimEnd(TrimStart(s))

\* what the user can type into the textarea
InputTexts == {<<>>, <<" ">>, <<" ", "q", " ">>}

\* the texts of the suggestion cards
SuggestionTexts == {<<"s">>}

UserMessage(text, n) == [role |-> "user", text |-> text, error |-> FALSE, req |-> n]

AnswerText == <<"a">>
ApologyText == <<"I", "'", "m", " ", "s", "o", "r", "r", "y">>

AssistantMessage(r, ok) ==
  [role |-> "assistant", text |-> IF ok THEN AnswerText ELSE ApologyText, error |-> ~ok, req |-> r.req]

AskAcceptedMut(question) == question # <<>> /\ ~rendered.loading

\* the guard of ask: it reads the loading of the render that created the callback
AskAccepted(question) == Trim(question) # <<>> /\ ~rendered.loading

\* ask past its guard, up to the await: setMessages, setLoading(true), sendQuestion(trimmed)
SendAsk(question) ==
  /\ messages' = Append(messages, UserMessage(Trim(question), sent + 1))
  /\ loading' = TRUE
  /\ inflight' = inflight \cup {[req |-> sent + 1, question |-> Trim(question), history |-> <<>>]}
  /\ sent' = sent + 1

Ask(question) ==
  IF AskAccepted(question)
  THEN SendAsk(question)
  ELSE UNCHANGED <<messages, loading, inflight, sent>>

\* onChange of the textarea, which is disabled while the rendered loading is true
TypeInput ==
  /\ ~rendered.loading
  /\ \E t \in InputTexts : t # input /\ input' = t
  /\ UNCHANGED <<messages, loading, rendered, inflight, sent, outcomes>>
  /\ ignored' = "none"
  /\ UNCHANGED <<backendVars, histVars>>

\* ChatInput.handleSubmit: onSend(input); setInput('')
SubmitInput ==
  /\ Trim(rendered.input) # <<>>
  /\ ~rendered.loading
  /\ sent < MaxAsks
  /\ Ask(rendered.input)
  /\ input' = <<>>
  /\ UNCHANGED <<rendered, outcomes>>
  /\ ignored' = "none"
  /\ UNCHANGED <<backendVars, histVars>>

\* a suggestion card of the welcome screen: onSuggestionClick(item.text)
SuggestionClick ==
  /\ Len(rendered.messages) = 0
  /\ sent < MaxAsks
  /\ \E s \in SuggestionTexts : Ask(s)
  /\ UNCHANGED <<input, rendered, outcomes>>
  /\ ignored' = "none"
  /\ UNCHANGED <<backendVars, histVars>>

\* the Clear Chat button of the header: setMessages([])
clearChat ==
  /\ messages' = <<>>
  /\ UNCHANGED <<loading, input, rendered, inflight, sent, outcomes>>
  /\ ignored' = "none"
  /\ UNCHANGED <<backendVars, histVars>>

\* the await of sendQuestion settles: the try or the catch appends, finally clears loading
SettleMut(r, ok) ==
  /\ messages' = Append(messages, AssistantMessage(r, ok))
  /\ loading' = IF ok THEN FALSE ELSE loading
  /\ inflight' = inflight \ {r}
  /\ outcomes' = outcomes \cup {[req |-> r.req, ok |-> ok]}

Settle(r, ok) ==
  /\ messages' = Append(messages, AssistantMessage(r, ok))
  /\ loading' = FALSE
  /\ inflight' = inflight \ {r}
  /\ outcomes' = outcomes \cup {[req |-> r.req, ok |-> ok]}

ResponseArrives ==
  /\ \E r \in inflight : \E ok \in BOOLEAN : Settle(r, ok)
  /\ UNCHANGED <<input, rendered, sent>>
  /\ ignored' = "none"
  /\ UNCHANGED <<backendVars, histVars>>

\* React re-renders: the components and the callbacks see the current state
Render ==
  /\ rendered' = [messages |-> messages, loading |-> loading, input |-> input]
  /\ rendered' # rendered
  /\ UNCHANGED <<messages, loading, input, inflight, sent, outcomes>>
  /\ ignored' = "none"
  /\ UNCHANGED <<backendVars, histVars>>

NextChat ==
  \/ TypeInput
  \/ SubmitInput
  \/ SuggestionClick
  \/ clearChat
  \/ ResponseArrives
  \/ Render

SpecChat == Init /\ [][NextChat]_vars

\* every request sent by fetch settles: it resolves, or it rejects
SpecChatFair == SpecChat /\ WF_vars(ResponseArrives)

\* questions that trim to nothing
BlankQuestions == {<<>>, <<" ">>, <<" ", " ">>}

\* ask is called with a question that trims to nothing
AskBlank ==
  /\ sent < MaxAsks
  /\ \E q \in BlankQuestions : Ask(q)
  /\ ignored' = "ask"
  /\ UNCHANGED <<input, rendered, outcomes>>
  /\ UNCHANGED <<backendVars, histVars>>

\* ChatInput.handleSubmit when its condition fails: the input is blank or disabled
SubmitIgnored ==
  /\ ~(Trim(rendered.input) # <<>> /\ ~rendered.loading)
  /\ ignored' = "submit"
  /\ UNCHANGED <<messages, loading, input, rendered, inflight, sent, outcomes>>
  /\ UNCHANGED <<backendVars, histVars>>

NextInput ==
  \/ NextChat
  \/ AskBlank
  \/ SubmitIgnored

SpecInput == Init /\ [][NextInput]_vars

\* ChatWindow: messages.length === 0 ? <WelcomeScreen/> : (messages, loading && <TypingIndicator/>)
WelcomeShown == Len(rendered.messages) = 0

TypingShown == Len(rendered.messages) # 0 /\ rendered.loading

(* ------------------------------------------------------------ properties *)
Done == pc = "done"
Succeeded == Done /\ Len(responses) = 1 /\ responses[1].status = 200
TheAnswer == responses[1].answer
TheChart == responses[1].chart_data
ResultDocs == execution_result.data
ResultType == execution_result.type

\* a document qualifies when it has an _id and some numeric field other than _id
Qualifies(doc) == HasKey(doc, IdKey) /\ \E i \in 1..Len(doc) : doc[i].k # IdKey /\ doc[i].v.t = "int"
NumericFields(doc) == {i \in 1..Len(doc) : doc[i].k # IdKey /\ doc[i].v.t = "int"}

\* the template part by part, with the {result} token rendered as res and {{runs}} as runs;
\* the text "{{result}}" is a brace, the {result} token and a brace
Rendered(p, res, runs) ==
  Flatten([i \in 1..Len(p) |->
             CASE p[i] = ResultToken -> res
               [] p[i] = Placeholder(RunsKey) -> runs
               [] p[i] = Placeholder(ResultKey) -> <<"{">> \o res \o <<"}">>
               [] OTHER -> p[i]])

\* C1 as stated: for an empty result the answer is exactly "No data found", whatever the template
C1_AlwaysNoDataFound ==
  (Succeeded /\ ResultType = "empty") => TheAnswer = StrV(NoDataFound)

\* C1 amended: for an empty result the answer is the template with every {result} token
\* replaced by "No data found" and all the text around the token kept
C1_EmptyAnswer ==
  (Succeeded /\ ResultType = "empty") =>
    \A p \in PartSeqs :
      Flatten(p) = answer_template.s => TheAnswer = StrV(Rendered(p, NoDataFound, Placeholder(RunsKey)))

C1_Witness ==
  /\ Succeeded /\ ResultType = "empty"
  /\ answer_template.s = ResultToken \o <<" ", "o", "k">>
  /\ TheAnswer = StrV(NoDataFound \o <<" ", "o", "k">>)

\* C2: a single document with an _id and exactly one numeric field renders {result} as
\* "<_id> with <value, thousands-separated>", for every value including 0 and negatives
C2_SingleRendered ==
  (Succeeded /\ ResultType = "dict" /\ HasKey(ResultDocs[1], IdKey)
     /\ Cardinality(NumericFields(ResultDocs[1])) = 1) =>
    LET doc == ResultDocs[1]
        val == doc[CHOOSE i \in NumericFields(doc) : TRUE].v
    IN \A p \in PartSeqs :
         Flatten(p) = answer_template.s =>
           TheAnswer = StrV(Rendered(p, PyStr(Get(doc, IdKey)) \o <<" ", "w", "i", "t", "h", " ">> \o FormatComma(val.n),
                                     IF HasKey(doc, RunsKey) THEN PyStr(Get(doc, RunsKey)) ELSE Placeholder(RunsKey)))

\* the spec's allow-list of stage keys: filter, group, sort, limit, project, restricted join
AllowedStages == {"$match", "$group", "$sort", "$limit", "$project", "$lookup"}
HasForbiddenStage(pl) == \E i \in 1..Len(pl.stages) : pl.stages[i] \notin AllowedStages

\* C3: a descriptor with a stage outside the allow-list ends in a validation error and
\* engine.execute is never invoked for it
C3_ForbiddenNeverExecuted ==
  HasForbiddenStage(ai_response.pipeline) =>
    /\ executed = <<>>
    /\ Done => (Len(responses) = 1 /\ responses[1].shape = "validation_error")

\* C4: when the oracle reports an error the request ends at once with the generation error
\* response and engine.execute is never invoked, also when a pipeline came with the error
C4_OracleErrorStops ==
  ai_response.hasError =>
    /\ Done
    /\ executed = <<>>
    /\ execution_result = NoExecution
    /\ responses = <<Response(500, "answer", StrV(GenErrPrefix \o ai_response.error), NoChart, NoPipeline)>>

C4_Witness ==
  /\ ai_response.hasError /\ ai_response.pipeline.t = "list"
  /\ Done /\ Len(responses) = 1 /\ responses[1].status = 500

\* C5: with fewer than 3 qualifying documents chart_data is null
C5_FewQualifyingNoChart ==
  (Succeeded /\ Cardinality({i \in 1..Len(ResultDocs) : Qualifies(ResultDocs[i])}) < 3) => TheChart = NoChart

\* C6: labels and values of a chart payload have the same length
C6_SameLength ==
  (Succeeded /\ TheChart # NoChart) => Len(TheChart.labels) = Len(TheChart.values)

\* C7: labels[i] and values[i] come from the same document, and the contributing
\* documents keep the order of the execution result
C7_PairedInOrder ==
  (Succeeded /\ TheChart # NoChart) =>
    /\ Len(TheChart.labels) = Len(TheChart.values)
    /\ \E f \in [1..Len(TheChart.labels) -> 1..Len(ResultDocs)] :
         /\ \A i, j \in 1..Len(TheChart.labels) : i < j => f[i] < f[j]
         /\ \A i \in 1..Len(TheChart.labels) :
              /\ HasKey(ResultDocs[f[i]], IdKey)
              /\ TheChart.labels[i] = PyStr(Get(ResultDocs[f[i]], IdKey))
              /\ \E k \in NumericFields(ResultDocs[f[i]]) : ResultDocs[f[i]][k].v.n = TheChart.values[i]

\* C8: the answer of every successful request is a non-empty string
C8_AnswerNonEmpty ==
  Succeeded => (TheAnswer.t = "str" /\ Len(TheAnswer.s) > 0)

StageRank(p) ==
  CASE p = "received" -> 0 [] p = "generate" -> 1 [] p = "execute" -> 2
    [] p = "format" -> 3 [] p = "chart" -> 4 [] OTHER -> 5

\* C9: a request has no response until it is done and exactly one from then on, and
\* every step moves to a later stage: no stage is entered again
C9_OneResponseForwardOnly ==
  /\ [](Len(responses) = (IF Done THEN 1 ELSE 0))
  /\ [][StageRank(pc') > StageRank(pc) /\ (responses' # responses => pc' = "done")]_vars

C9_Witness ==
  /\ Done /\ request.valid /\ ResultType \in {"empty", "dict", "list"}
  /\ Len(responses) = 1 /\ responses[1].status = 200

\* C10: engine.execute is invoked at most once, and when it reports an error the request
\* ends with the execution error response carrying the message: no retry, no answer, no chart
C10_ExecuteOnceErrorStops ==
  /\ Len(executed) <= 1
  /\ execution_result.hasError =>
       /\ Done
       /\ Len(executed) = 1
       /\ final_answer = NullV
       /\ responses = <<Response(500, "answer", StrV(ExecErrPrefix \o execution_result.error), NoChart, NoPipeline)>>

C10_Witness ==
  /\ execution_result.hasError /\ Done /\ Len(executed) = 1
  /\ ai_response.pipeline.t = "list"
  /\ responses[1].answer = StrV(ExecErrPrefix \o <<"s">>)

StartsWith(s, pre) == Len(s) >= Len(pre) /\ SubSeq(s, 1, Len(pre)) = pre

\* the failure category a caller can read off an error response
FailureTag(r) ==
  CASE r.answer.t = "str" /\ StartsWith(r.answer.s, GenErrPrefix) -> "generation_failed"
    [] r.answer.t = "str" /\ StartsWith(r.answer.s, ExecErrPrefix) -> "execution_failed"
    [] OTHER -> "none"

\* C11: every failed request is answered in one of the three failure categories, and the
\* category is that of the stage that failed
C11_TaggedFailures ==
  (Done /\ request.valid /\ Len(responses) = 1 /\ responses[1].status # 200) =>
    \/ FailureTag(responses[1]) = "generation_failed" /\ ai_response.hasError
    \/ FailureTag(responses[1]) = "validation_failed"
    \/ FailureTag(responses[1]) = "execution_failed" /\ execution_result.hasError

\* C13: a descriptor handed to engine.execute has a $limit stage with a bound of at most
\* 1000 and at most 8 stages
C13_BoundedBeforeExecute ==
  \A i \in 1..Len(executed) :
    LET pl == executed[i].pipeline
    IN /\ \E j \in 1..Len(pl.stages) : pl.stages[j] = "$limit"
       /\ pl.limit <= 1000
       /\ Len(pl.stages) <= 8

\* the qualifying documents of a result, in the order of the result
QualIdx(docs) == {i \in 1..Len(docs) : Qualifies(docs[i])}
KthQual(docs, k) == CHOOSE i \in QualIdx(docs) : Cardinality({j \in QualIdx(docs) : j <= i}) = k
Measure(doc) == doc[CHOOSE i \in NumericFields(doc) : \A j \in NumericFields(doc) : i <= j].v.n
ListEntry(doc) == PyStr(Get(doc, IdKey)) \o <<" ", "(">> \o FormatComma(Measure(doc)) \o <<")">>
ExpectedEntries(docs) == [k \in 1..Cardinality(QualIdx(docs)) |-> ListEntry(docs[KthQual(docs, k)])]
SingleForm(doc) == PyStr(Get(doc, IdKey)) \o <<" ", "w", "i", "t", "h", " ">> \o FormatComma(Measure(doc))

\* C17: a list result with more than one qualifying document renders {result} as the
\* comma-joined "<_id> (<measure>)" entries, one per qualifying document in result order;
\* the other documents add nothing and the request does not fail
C17_ListRendered ==
  (Done /\ ResultType = "list" /\ Cardinality(QualIdx(ResultDocs)) > 1 /\ answer_template.t = "str") =>
    /\ Succeeded
    /\ \A p \in PartSeqs :
         Flatten(p) = answer_template.s =>
           TheAnswer = StrV(Rendered(p, JoinComma(ExpectedEntries(ResultDocs)), Placeholder(RunsKey)))

C17_Witness ==
  /\ Succeeded /\ ResultType = "list" /\ Len(ResultDocs) = 3
  /\ Cardinality(QualIdx(ResultDocs)) = 2 /\ ~Qualifies(ResultDocs[2])
  /\ TheAnswer = StrV(<<"A", " ", "(", "1", "0", "0", ")", ",", " ", "Z", " ", "(", "0", ")">>)

\* C18: a list result with exactly one qualifying document renders {result} in the single
\* form "<_id> with <measure>"
C18_CollapsedSingleForm ==
  (Succeeded /\ ResultType = "list" /\ Cardinality(QualIdx(ResultDocs)) = 1 /\ answer_template.t = "str"
     /\ Measure(ResultDocs[KthQual(ResultDocs, 1)]) # 0) =>
    \A p \in PartSeqs :
      Flatten(p) = answer_template.s =>
        TheAnswer = StrV(Rendered(p, SingleForm(ResultDocs[KthQual(ResultDocs, 1)]), Placeholder(RunsKey)))

\* how the code renders {result} and {{runs}} for one document
OneDocResult(doc) == IF HasKey(doc, IdKey) THEN ResultStr(doc) ELSE ResultToken
OneDocRuns(doc) == IF HasKey(doc, RunsKey) THEN PyStr(Get(doc, RunsKey)) ELSE Placeholder(RunsKey)

\* C19: when the result is one document, as a dict or as a list of length one, every
\* {{field}} token naming a field of the document is replaced by the value's string form
C19_FieldsResolved ==
  (Succeeded /\ answer_template.t = "str"
     /\ (ResultType = "dict" \/ (ResultType = "list" /\ Len(ResultDocs) = 1))) =>
    \A p \in PartSeqs :
      Flatten(p) = answer_template.s =>
        TheAnswer = StrV(Rendered(p, OneDocResult(ResultDocs[1]), OneDocRuns(ResultDocs[1])))

\* the template part by part with the token {{result}}, which names no field, kept as it is
Kept(p, res, runs) ==
  Flatten([i \in 1..Len(p) |->
             CASE p[i] = ResultToken -> res
               [] p[i] = Placeholder(RunsKey) -> runs
               [] OTHER -> p[i]])

\* C20: a placeholder that cannot be resolved stays verbatim: every {{field}} token for an
\* empty result, a {{field}} token of an absent field and the {result} token of a document
\* without _id for a single result; the other text is unchanged
C20_UnresolvedVerbatim ==
  (Succeeded /\ ResultType \in {"empty", "dict"} /\ answer_template.t = "str") =>
    \A p \in PartSeqs :
      Flatten(p) = answer_template.s =>
        TheAnswer = StrV(IF ResultType = "empty"
                         THEN Kept(p, NoDataFound, Placeholder(RunsKey))
                         ELSE Kept(p, OneDocResult(ResultDocs[1]), OneDocRuns(ResultDocs[1])))

(* ------------------------------------------- properties of the history *)
\* C12: the history handed to the oracle has at most 10 turns and is the last
\* min(10, length) turns of the inbound history, in their order
C12_LastTurnsForwarded ==
  hstage = "forwarded" =>
    LET n == Len(inbound_history)
        k == Len(forwarded_history)
    IN /\ k <= 10
       /\ k = IF n < 10 THEN n ELSE 10
       /\ \A i \in 1..k : forwarded_history[i] = inbound_history[n - k + i]

(* --------------------------------------- properties of the chat client *)
\* the step of an accepted ask
AskStep ==
  /\ sent' = sent + 1
  /\ Len(messages') = Len(messages) + 1
  /\ SubSeq(messages', 1, Len(messages)) = messages
  /\ messages'[Len(messages')].role = "user"
  /\ messages'[Len(messages')].req = sent'
  /\ messages'[Len(messages')].text # <<>>
  /\ loading' = TRUE
  /\ \E r \in inflight' \ inflight : r.req = sent'
  /\ outcomes' = outcomes

\* the step in which the request of an ask completes
SettleStep ==
  \E o \in outcomes' \ outcomes :
    /\ outcomes' = outcomes \cup {o}
    /\ \A x \in outcomes : x.req # o.req
    /\ \E r \in inflight : r.req = o.req /\ inflight' = inflight \ {r}
    /\ Len(messages') = Len(messages) + 1
    /\ SubSeq(messages', 1, Len(messages)) = messages
    /\ messages'[Len(messages')].role = "assistant"
    /\ messages'[Len(messages')].req = o.req
    /\ messages'[Len(messages')].error = ~o.ok
    /\ messages'[Len(messages')].text = IF o.ok THEN AnswerText ELSE ApologyText
    /\ loading' = FALSE
    /\ sent' = sent

IsOutstanding(n) == \E r \in inflight : r.req = n
IsSettled(n) == \E o \in outcomes : o.req = n

\* C14: an accepted ask appends the user message, sets loading and sends the request
\* in one step; the request then completes, and the step in which it completes appends
\* exactly one assistant message, error-flagged exactly on failure, and clears loading
C14_AskLifecycle ==
  /\ [][(sent' # sent => AskStep) /\ (outcomes' # outcomes => SettleStep)]_vars
  /\ \A n \in 1..MaxAsks : IsOutstanding(n) ~> (IsSettled(n) /\ ~IsOutstanding(n))

C14_Witness ==
  /\ Len(messages) = 4
  /\ messages[1].role = "user" /\ messages[2].role = "assistant" /\ ~messages[2].error
  /\ messages[3].role = "user" /\ messages[4].role = "assistant" /\ messages[4].error
  /\ messages[2].req = messages[1].req /\ messages[4].req = messages[3].req
  /\ outcomes = {[req |-> 1, ok |-> TRUE], [req |-> 2, ok |-> FALSE]}
  /\ inflight = {}
  /\ ~loading

C16_ScreensFollowState ==
  /\ WelcomeShown <=> rendered.messages = <<>>
  /\ rendered.loading => TypingShown

(* ---------------------------------- further properties of the handler *)
\* the {result} text of one document by the rule of the measure: the _id alone when no
\* field is numeric, the _id with the first numeric field otherwise; a measure of 0 may
\* be rendered or left out, but no later field stands in for it
MeasuredForms(doc) ==
  LET name == PyStr(Get(doc, IdKey))
      with == name \o <<" ", "w", "i", "t", "h", " ">> \o FormatComma(Measure(doc))
  IN IF NumericFields(doc) = {} THEN {name}
     ELSE IF Measure(doc) = 0 THEN {name, with}
     ELSE {with}

\* the part sequences without a {{field}} token
ResultOnly(p) == \A i \in 1..Len(p) : p[i] # Placeholder(RunsKey)

\* C21: the measure of a single document is its first numeric field other than _id, in
\* field order: non-numeric fields before it are passed over, later numeric fields are
\* ignored, and without a numeric field {result} is the string form of the _id alone
C21_FirstNumericIsMeasure ==
  (Done /\ ~execution_result.hasError /\ answer_template.t = "str"
     /\ (ResultType = "dict" \/ (ResultType = "list" /\ Len(ResultDocs) = 1))
     /\ HasKey(ResultDocs[1], IdKey)) =>
    /\ Succeeded
    /\ \A p \in PartSeqs :
         (Flatten(p) = answer_template.s /\ ResultOnly(p)) =>
           \E res \in MeasuredForms(ResultDocs[1]) : TheAnswer = StrV(Rendered(p, res, <<>>))

C21_Witness ==
  /\ Succeeded /\ ResultType = "dict"
  /\ ResultDocs[1] = <<Fld(IdKey, IntV(2023)), Fld(TeamKey, NullV), Fld(RunsKey, IntV(-1234567)), Fld(WktsKey, IntV(5))>>
  /\ answer_template.s = ResultToken
  /\ TheAnswer = StrV(<<"2", "0", "2", "3", " ", "w", "i", "t", "h", " ", "-", "1", ",", "2", "3", "4", ",", "5", "6", "7">>)

\* C22: the chart payload is null when chart_suggestion is null or has no type, and when
\* the result is empty or a single document
C22_NoChartWithoutTrigger ==
  (Done /\ Len(responses) = 1
     /\ \/ ~SuggestsChart(chart_suggestion)
        \/ Len(ResultDocs) <= 1) =>
    TheChart = NoChart

C22_Witness ==
  /\ Succeeded /\ TheChart = NoChart
  /\ chart_suggestion.t = "dict" /\ chart_suggestion.type = "bar"
  /\ ResultType = "list" /\ Len(ResultDocs) = 1

\* C23: every chart payload of a response has one of the types bar, line, pie
C23_ChartTypeInEnum ==
  (Done /\ Len(responses) = 1 /\ TheChart # NoChart) => TheChart.type \in {"bar", "line", "pie"}

\* the branch the handler takes for an execution result
BranchKind(type, docs) ==
  CASE type = "dict" -> "single"
    [] type = "list" /\ Len(docs) = 1 -> "single"
    [] type = "list" -> "multiple"
    [] type = "empty" -> "empty"
    [] OTHER -> "none"

CountKind(n) == IF n = 0 THEN "empty" ELSE IF n = 1 THEN "single" ELSE "multiple"

C29_ChartMatchesAnswer ==
  (Succeeded /\ TheChart # NoChart) =>
    /\ Len(TheChart.labels) = Cardinality(QualIdx(ResultDocs))
    /\ Len(TheChart.values) = Cardinality(QualIdx(ResultDocs))
    /\ \A k \in 1..Cardinality(QualIdx(ResultDocs)) :
         /\ k <= Len(TheChart.labels) => TheChart.labels[k] = PyStr(Get(ResultDocs[KthQual(ResultDocs, k)], IdKey))
         /\ k <= Len(TheChart.values) => TheChart.values[k] = Measure(ResultDocs[KthQual(ResultDocs, k)])

\* a step in which the handler ends on a failure that neither the oracle nor the engine reported
UnexpectedFailureStep ==
  /\ pc \in {"generate", "execute", "format"}
  /\ pc' = "done"
  /\ ~ai_response'.hasError
  /\ ~execution_result'.hasError

\* C30: an unexpected failure after validation ends the request with exactly one response,
\* the generic error answer with status 500 and no chart; no request ends without a response
C30_UnexpectedCaught ==
  /\ [][UnexpectedFailureStep =>
          responses' = <<Response(500, "answer", StrV(UnexpectedMsg), NoChart, NoPipeline)>>]_vars
  /\ [](Done => Len(responses) = 1)

C30_Witness ==
  /\ Done /\ Len(responses) = 1
  /\ responses[1] = Response(500, "answer", StrV(UnexpectedMsg), NoChart, NoPipeline)
  /\ ~execution_result.hasError /\ ResultType = "list" /\ final_answer = NullV

(* ------------------------------- further properties of the chat client *)
\* nothing of the chat changes
ChatUntouched == UNCHANGED <<messages, loading, inflight, sent, input>>

\* the step sends the question typed into the input box
SentFromInput ==
  /\ sent' # sent
  /\ messages' # <<>>
  /\ messages'[Len(messages')].text = Trim(rendered.input)

\* C25 as stated: a blank ask changes nothing, a submit that is turned away leaves the
\* typed text in place, and every accepted question clears the input box
C25_AcceptedClearsInput ==
  [][/\ ignored' = "ask" => ChatUntouched
     /\ ignored' = "submit" => ChatUntouched
     /\ sent' # sent => input' = <<>>]_vars

\* C25 amended: a blank ask changes nothing, a submit that is turned away leaves the
\* typed text in place, and a question accepted from the input box clears the input box
C25_SubmitClearsInput ==
  [][/\ ignored' = "ask" => ChatUntouched
     /\ ignored' = "submit" => ChatUntouched
     /\ SentFromInput => input' = <<>>]_vars

C25_Witness ==
  /\ ignored = "submit"
  /\ rendered.loading
  /\ input = <<" ", "q", " ">>
  /\ rendered.input = input
  /\ sent = 1

\* C26: the message list is a sequence of user/assistant pairs: odd places hold user
\* messages, even places the assistant message of the request of the message before
C26_AlternatingPairs ==
  \A i \in 1..Len(messages) :
    IF i % 2 = 1
    THEN messages[i].role = "user"
    ELSE messages[i].role = "assistant" /\ messages[i].req = messages[i - 1].req

AsTurns(msgs) == [i \in 1..Len(msgs) |-> [role |-> msgs[i].role, content |-> msgs[i].text]]

\* C28: the request of a question carries as conversation_history the turns that are
\* in the chat when the question is asked
C28_HistoryCarried ==
  [][sent' # sent => \E r \in inflight' \ inflight : r.history = AsTurns(messages)]_vars

====
